---- MODULE Spec2Model ----
(***************************************************************************)
(* A model of the Octave binding __ollama__ (src/src/__ollama__.cc).       *)
(*                                                                         *)
(* One call of __ollama__ is modelled in three stages, as the code runs    *)
(* it: the entry checks (nargout, is_running, pair count), the pair loop   *)
(* (one step per Name/Value pair, one branch per parameter name) and the   *)
(* dispatch chain (one branch per operation of the client library).  The   *)
(* arguments of the call are read pair by pair, as the loop reads them,    *)
(* and recorded in args.  The client library (ollama-hpp) and the server   *)
(* are the environment: a library function either returns or raises        *)
(* ollama::exception.                                                      *)
(***************************************************************************)
EXTENDS Integers, Sequences, FiniteSets, TLC

(***************************************************************************)
(* Bounds of the model.                                                    *)
(***************************************************************************)
\* largest number of Name/Value pairs in one call
MaxPairs == 3

\* the largest number of rows and of columns of the pixels of a figure
MaxDim == 2

(***************************************************************************)
(* Host values (octave_value).  t is the host type, s the text of a        *)
(* character vector, c the elements of a cell array of character vectors   *)
(* (or the field names of a struct), n the number of elements, cols the    *)
(* number of columns and rows the rows of a message history.               *)
(***************************************************************************)
Val(t, s, c, n, cols, rows) ==
  [t |-> t, s |-> s, c |-> c, n |-> n, cols |-> cols, rows |-> rows]

Chr(s) ==
  Val("char", s, <<>>, IF s = "" THEN 0 ELSE 1, IF s = "" THEN 0 ELSE 1, <<>>)
CellStr(c) == Val("cellstr", "", c, Len(c), Len(c), <<>>)
Dbl(n) == Val("double", "", <<>>, n, n, <<>>)
Struct(fields) == Val("struct", "", fields, 1, 1, <<>>)
MsgCell(rows) == Val("cell", "", <<>>, 3 * Len(rows), 3, rows)

\* a value of the return list: a boolean, a character string, an N-by-1
\* cell array of strings, or the undefined value of a fresh octave_value_list
Bool(b) == [t |-> "bool", s |-> IF b THEN "true" ELSE "false", c |-> <<>>]
Str(s) == [t |-> "char", s |-> s, c |-> <<>>]
CellOut(c) == [t |-> "cellstr", s |-> "", c |-> c]
Undefined == [t |-> "undefined", s |-> "", c |-> <<>>]

\* the host's predicates on a value
isempty(v) == v.n = 0
is_string(v) == v.t = "char"
iscellstr(v) == v.t = "cellstr"
iscell(v) == v.t \in {"cellstr", "cell"}
isstruct(v) == v.t = "struct"
is_double_scalar(v) == v.t = "double" /\ v.n = 1

(***************************************************************************)
(* The inputs of the model.                                                *)
(***************************************************************************)
ParamNames ==
  << "model", "prompt", "serverURL", "readTimeout", "writeTimeout", "Query",
     "loadModel", "pullModel", "copyModel", "deleteModel", "unloadModel",
     "modelInfo", "listModels", "listRunningModels", "imageFile",
     "imageBase64", "options", "message", "systemMessage", "think" >>

Recognised == {ParamNames[i] : i \in 1..Len(ParamNames)}

\* a name the pair loop has no branch for
OtherName == "verbose"

DefaultURL == "http://localhost:11434"
URLs == {DefaultURL, "a"}

EmptyChr == Chr("")
CharA == Chr("a")
Num == Dbl(1)
NumVec == Dbl(2)
Cell1 == CellStr(<<"a">>)
Cell2 == CellStr(<<"a", "b">>)
Opt == Struct(<<"seed", "temperature">>)

\* a row of a message history: user prompt, images, previous response
Row(user, items, resp) ==
  [user |-> user, img |-> [t |-> "cell", cols |-> 2, items |-> items],
   resp |-> resp]

Msg1 == MsgCell(<< Row(CharA, <<>>, EmptyChr) >>)
Msg2 == MsgCell(<< Row(CharA, << <<"imageFile", "a">> >>, CharA) >>)

\* histories with an element of a wrong type: a user prompt that is a
\* number, one that is a structure, an image list that is not a cell array,
\* a previous response that is a number
MsgNumUser == MsgCell(<< Row(Num, <<>>, EmptyChr) >>)
MsgStructUser == MsgCell(<< Row(Opt, <<>>, EmptyChr) >>)
MsgNoImgCell ==
  MsgCell(<< [user |-> CharA, img |-> [t |-> "double", cols |-> 1, items |-> <<>>],
              resp |-> EmptyChr] >>)
MsgNumResp == MsgCell(<< Row(CharA, <<>>, Num) >>)

\* the values tried for a parameter: the well-typed ones, some of a wrong
\* type, and an empty one
ValuesFor(name) ==
  {EmptyChr} \cup
  CASE name \in {"readTimeout", "writeTimeout"} -> {Num, NumVec, CharA}
    [] name = "Query" -> {Chr("status"), Chr("version"), CharA, Num}
    [] name \in {"listModels", "listRunningModels"} ->
         {Chr("cellstr"), Chr("json"), CharA, Num}
    [] name = "copyModel" -> {Cell2, Cell1, CharA}
    [] name \in {"imageFile", "imageBase64"} -> {CharA, Cell2, Num}
    [] name = "options" -> {Opt, CharA}
    [] name = "message" ->
         {Msg1, Msg2, Cell2, CharA, MsgNumUser, MsgStructUser, MsgNoImgCell,
          MsgNumResp}
    [] OTHER -> {CharA, Num}

\* the names tried: every recognised name, an unrecognised one, an empty
\* one and one that is not a character vector
NameValues == {Chr(n) : n \in Recognised \cup {OtherName}} \cup {EmptyChr, Num}

\* what the library's list_models / list_running_models may return
ModelLists == { <<>>, <<"a">>, <<"b", "a">> }

\* the what() of an ollama::exception
ExcMsg == "ollama::exception"

\* the answers of the library to one branch of the dispatch chain: how the
\* call of the library function ends (ok: returns, with true where it
\* returns a bool; false: returns false; raise: raises ollama::exception),
\* the list of models a list function returns and how show_model_info ends
LibAnswers ==
  [kind : {"ok", "false", "raise"}, models : ModelLists, info : {"ok", "raise"}]

NoAnswer == [kind |-> "ok", models |-> <<>>, info |-> "ok"]

\* the answers that make a difference to the branch b of the dispatch chain
AnswersFor(b) ==
  CASE b \in {"not_running", "query_status"} -> {NoAnswer}
    [] b \in {"query_version", "inference"} ->
         {a \in LibAnswers : a.kind # "false" /\ a.models = <<>> /\ a.info = "ok"}
    [] b \in {"modelInfo"} -> {a \in LibAnswers : a.kind # "false"}
    [] b \in {"listModels", "listRunningModels"} ->
         {a \in LibAnswers : a.kind # "false" /\ a.info = "ok"}
    [] OTHER -> {a \in LibAnswers : a.models = <<>> /\ a.info = "ok"}

(***************************************************************************)
(* The state.                                                              *)
(***************************************************************************)
VARIABLES
  pc,        \* where the call is: "idle" (not called yet), "parse" (in the
             \* pair loop), "dispatch" (at the dispatch chain), or how it
             \* ended: "return", "error" (the host's error ()), "exception"
             \*  (an ollama::exception left the function)
  nargout,   \* number of outputs requested
  nargs,     \* args.length ()
  args,      \* the pairs read so far, <<name, value>> each
  p,         \* the loop index
  loc,       \* the local variables of __ollama__
  txt,       \* retval(0)
  err,       \* retval(1)
  msg,       \* the message of the error or of the exception
  calls,     \* the library functions called, with the loop index at the call
  lib,       \* the configuration the library keeps: server URL, timeouts
  serverUp,  \* the URLs at which a server answers
  branch,    \* the branch of the dispatch chain that was taken ("": none yet)
  raised,    \* a library function raised ollama::exception during the call
  fig        \* the call of fig2base64: its arguments, the steps it took in
             \* order, how it ended and what it returned

vars ==
  << pc, nargout, nargs, args, p, loc, txt, err, msg, calls, lib, serverUp,
     branch, raised, fig >>

\* the library's configuration before any setter is called
DefaultLib ==
  [url |-> DefaultURL, readTimeout |-> "default", writeTimeout |-> "default"]

\* the initialisation of the local variables
InitLoc ==
  [running |-> FALSE, model |-> "", prompt |-> "", has_prompt |-> FALSE,
   sysmsg |-> "", think |-> "false", images |-> <<>>, has_images |-> FALSE,
   options |-> {}, has_options |-> FALSE, messages |-> <<>>,
   has_messages |-> FALSE, query_status |-> FALSE, query_version |-> FALSE,
   source |-> "", target |-> "", do_loadModel |-> FALSE,
   do_pullModel |-> FALSE, do_copyModel |-> FALSE, do_deleteModel |-> FALSE,
   do_unloadModel |-> FALSE, modelInfoName |-> "", do_modelInfo |-> FALSE,
   do_listModels |-> FALSE, do_listRunningModels |-> FALSE,
   return_cellstr |-> FALSE]

(***************************************************************************)
(* The library.                                                            *)
(***************************************************************************)
\* ollama::is_running () at the configured URL
is_running(c, up) == c.lib.url \in up

\* c after the library function f is called
Called(c, f) == [c EXCEPT !.calls = Append(@, [f |-> f, p |-> c.p])]

\* c after error (m): the call ends with the host's error
error(c, m) == [c EXCEPT !.pc = "error", !.msg = m]

\* c after an ollama::exception that no handler of __ollama__ catches
Uncaught(c) == [c EXCEPT !.pc = "exception", !.msg = ExcMsg, !.raised = TRUE]

\* c after return retval
Return(c) == [c EXCEPT !.pc = "return"]

\* c after a catch block: retval(0) = err.what (), retval(1) = true
Caught(c) ==
  [c EXCEPT !.txt = Str(ExcMsg), !.err = Bool(TRUE), !.raised = TRUE]

(***************************************************************************)
(* The entry of __ollama__: the nargout check, the is_running check and    *)
(* the pair-count check.                                                   *)
(***************************************************************************)
\* Entry without the pair-count check
Entry_NoPairCheck(c, up, nout, n) ==
  IF nout # 2
  THEN error(c, "__ollama__: two output arguments are required.")
  ELSE LET c1 == Called(c, "is_running")
           run == is_running(c1, up)
           c2 == [c1 EXCEPT !.loc.running = run, !.err = Bool(~ run)]
       IN [c2 EXCEPT !.pc = IF 0 < n THEN "parse" ELSE "dispatch"]

Entry(c, up, nout, n) ==
  IF nout # 2
  THEN error(c, "__ollama__: two output arguments are required.")
  ELSE LET c1 == Called(c, "is_running")
           run == is_running(c1, up)
           c2 == [c1 EXCEPT !.loc.running = run, !.err = Bool(~ run)]
       IN IF n % 2 # 0
          THEN error(c2, "__ollama__: input arguments must be in Name-Value pairs.")
          ELSE [c2 EXCEPT !.pc = IF 0 < n THEN "parse" ELSE "dispatch"]

(***************************************************************************)
(* The branches of the pair loop, one per parameter name.  c is the call   *)
(* at the start of the branch, v the value args(p+1).                      *)
(***************************************************************************)
Param_model(c, v) ==
  IF ~ is_string(v)
  THEN error(c, "__ollama__: 'model' value must be a character vector.")
  ELSE [c EXCEPT !.loc.model = v.s]

EitherPrompt == "__ollama__: specify either 'prompt' or 'message'."

\* the prompt branch of the version that has no check against 'message'
Param_prompt_NoCheck(c, v) ==
  LET c1 == [c EXCEPT !.loc.has_prompt = TRUE]
  IN IF ~ is_string(v)
     THEN error(c1, "__ollama__: 'prompt' value must be a character vector.")
     ELSE [c1 EXCEPT !.loc.prompt = v.s]

Param_prompt(c, v) ==
  IF c.loc.has_messages
  THEN error(c, EitherPrompt)
  ELSE LET c1 == [c EXCEPT !.loc.has_prompt = TRUE]
       IN IF ~ is_string(v)
          THEN error(c1, "__ollama__: 'prompt' value must be a character vector.")
          ELSE [c1 EXCEPT !.loc.prompt = v.s]

\* the server is checked again at the new URL; when it does not answer the
\* call returns at once
\* the serverURL branch without the second is_running
Param_serverURL_NoRecheck(c, v, up) ==
  IF ~ is_string(v)
  THEN error(c, "__ollama__: 'serverURL' value must be a character vector.")
  ELSE [Called(c, "setServerURL") EXCEPT !.lib.url = v.s]

Param_serverURL(c, v, up) ==
  IF ~ is_string(v)
  THEN error(c, "__ollama__: 'serverURL' value must be a character vector.")
  ELSE LET c1 == [Called(c, "setServerURL") EXCEPT !.lib.url = v.s]
           c2 == Called(c1, "is_running")
           run == is_running(c2, up)
           c3 == [c2 EXCEPT !.loc.running = run]
       IN IF ~ run
          THEN Return([c3 EXCEPT !.txt = Bool(run), !.err = Bool(TRUE)])
          ELSE c3

Param_readTimeout(c, v) ==
  IF ~ is_double_scalar(v)
  THEN error(c, "__ollama__: 'readTimeout' value must be a double scalar.")
  ELSE [Called(c, "setReadTimeout") EXCEPT !.lib.readTimeout = "set"]

Param_writeTimeout(c, v) ==
  IF ~ is_double_scalar(v)
  THEN error(c, "__ollama__: 'writeTimeout' value must be a double scalar.")
  ELSE [Called(c, "setWriteTimeout") EXCEPT !.lib.writeTimeout = "set"]

\* the Query branch asking the server for the version as soon as it is named
Param_Query_Eager(c, v) ==
  IF ~ is_string(v)
  THEN error(c, "__ollama__: 'Query' value must be a character vector.")
  ELSE IF v.s = "status" THEN [c EXCEPT !.loc.query_status = TRUE]
  ELSE IF v.s = "version"
  THEN [Called(c, "get_version") EXCEPT !.loc.query_version = TRUE]
  ELSE error(c, "__ollama__: invalid value for 'Query'.")

Param_Query(c, v) ==
  IF ~ is_string(v)
  THEN error(c, "__ollama__: 'Query' value must be a character vector.")
  ELSE IF v.s = "status" THEN [c EXCEPT !.loc.query_status = TRUE]
  ELSE IF v.s = "version" THEN [c EXCEPT !.loc.query_version = TRUE]
  ELSE error(c, "__ollama__: invalid value for 'Query'.")

EitherModelOp == "__ollama__: either load, pull, copy, delete, or unload a model."

\* the loadModel branch with the check of the version without unloadModel
Param_loadModel_NoUnload(c, v) ==
  IF ~ is_string(v)
  THEN error(c, "__ollama__: 'loadModel' value must be a character vector.")
  ELSE IF c.loc.do_pullModel \/ c.loc.do_copyModel \/ c.loc.do_deleteModel
  THEN error(c, EitherModelOp)
  ELSE [c EXCEPT !.loc.source = v.s, !.loc.do_loadModel = TRUE]

Param_loadModel(c, v) ==
  IF ~ is_string(v)
  THEN error(c, "__ollama__: 'loadModel' value must be a character vector.")
  ELSE IF \/ c.loc.do_pullModel \/ c.loc.do_copyModel
          \/ c.loc.do_deleteModel \/ c.loc.do_unloadModel
  THEN error(c, EitherModelOp)
  ELSE [c EXCEPT !.loc.source = v.s, !.loc.do_loadModel = TRUE]

Param_pullModel(c, v) ==
  IF ~ is_string(v)
  THEN error(c, "__ollama__: 'pullModel' value must be a character vector.")
  ELSE IF \/ c.loc.do_loadModel \/ c.loc.do_copyModel
          \/ c.loc.do_deleteModel \/ c.loc.do_unloadModel
  THEN error(c, EitherModelOp)
  ELSE [c EXCEPT !.loc.source = v.s, !.loc.do_pullModel = TRUE]

Param_copyModel(c, v) ==
  IF ~ iscellstr(v) \/ v.n # 2
  THEN error(c, "__ollama__: 'copyModel' value must be a cellstring with two elements.")
  ELSE IF \/ c.loc.do_loadModel \/ c.loc.do_pullModel
          \/ c.loc.do_deleteModel \/ c.loc.do_unloadModel
  THEN error(c, EitherModelOp)
  ELSE [c EXCEPT !.loc.source = v.c[1], !.loc.target = v.c[2],
                 !.loc.do_copyModel = TRUE]

Param_deleteModel(c, v) ==
  IF ~ is_string(v)
  THEN error(c, "__ollama__: 'deleteModel' value must be a character vector.")
  ELSE IF \/ c.loc.do_loadModel \/ c.loc.do_pullModel
          \/ c.loc.do_copyModel \/ c.loc.do_unloadModel
  THEN error(c, EitherModelOp)
  ELSE [c EXCEPT !.loc.source = v.s, !.loc.do_deleteModel = TRUE]

\* the type error of unloadModel names loadModel, as in the source
Param_unloadModel(c, v) ==
  IF ~ is_string(v)
  THEN error(c, "__ollama__: 'loadModel' value must be a character vector.")
  ELSE IF \/ c.loc.do_loadModel \/ c.loc.do_pullModel
          \/ c.loc.do_copyModel \/ c.loc.do_deleteModel
  THEN error(c, EitherModelOp)
  ELSE [c EXCEPT !.loc.source = v.s, !.loc.do_unloadModel = TRUE]

Param_modelInfo(c, v) ==
  IF ~ is_string(v)
  THEN error(c, "__ollama__: 'modelInfo' value must be a character vector.")
  ELSE [c EXCEPT !.loc.modelInfoName = v.s, !.loc.do_modelInfo = TRUE]

EitherList == "__ollama__: specify either 'listModels' or 'listRunningModels'."

Param_listModels(c, v) ==
  IF ~ is_string(v)
  THEN error(c, "__ollama__: 'listModels' value must be a character vector.")
  ELSE LET c1 == IF v.s = "cellstr"
                 THEN [c EXCEPT !.loc.return_cellstr = TRUE] ELSE c
       IN IF v.s # "cellstr" /\ v.s # "json"
          THEN error(c1, "__ollama__: invalid value for 'listModels'.")
          ELSE IF c1.loc.do_listRunningModels
          THEN error(c1, EitherList)
          ELSE [c1 EXCEPT !.loc.do_listModels = TRUE]

\* the listRunningModels branch without the check against listModels
Param_listRunningModels_NoCheck(c, v) ==
  IF ~ is_string(v)
  THEN error(c, "__ollama__: 'listRunningModels' name must be a character vector.")
  ELSE LET c1 == IF v.s = "cellstr"
                 THEN [c EXCEPT !.loc.return_cellstr = TRUE] ELSE c
       IN IF v.s # "cellstr" /\ v.s # "json"
          THEN error(c1, "__ollama__: invalid value for 'listRunningModels'.")
          ELSE [c1 EXCEPT !.loc.do_listRunningModels = TRUE]

Param_listRunningModels(c, v) ==
  IF ~ is_string(v)
  THEN error(c, "__ollama__: 'listRunningModels' name must be a character vector.")
  ELSE LET c1 == IF v.s = "cellstr"
                 THEN [c EXCEPT !.loc.return_cellstr = TRUE] ELSE c
       IN IF v.s # "cellstr" /\ v.s # "json"
          THEN error(c1, "__ollama__: invalid value for 'listRunningModels'.")
          ELSE IF c1.loc.do_listModels
          THEN error(c1, EitherList)
          ELSE [c1 EXCEPT !.loc.do_listRunningModels = TRUE]

(***************************************************************************)
(* The image loaders ollama::image::from_file and from_base64_string.      *)
(* Loading the texts in data with loader f: the loader is called once per  *)
(* text, in order, and the at-th call of the branch raises (at = 0 or      *)
(* beyond the last call: none raises).                                     *)
(***************************************************************************)
Raises(data, at) == at \in 1..Len(data)

Loaded(c, f, data, at) ==
  LET k == IF Raises(data, at) THEN at ELSE Len(data)
  IN [c EXCEPT !.calls = @ \o [i \in 1..k |-> [f |-> f, p |-> c.p]]]

Images(f, data) == [i \in 1..Len(data) |-> [loader |-> f, data |-> data[i]]]

EitherImage == "__ollama__: specify either 'imageFile' or 'imageBase64'."

\* the image branches without the check of has_images
ImageParam_NoCheck(c, v, at, f, what) ==
  LET data == IF is_string(v) THEN << v.s >> ELSE v.c
      c1 == Loaded(c, f, data, at)
  IN IF is_string(v) \/ iscellstr(v)
     THEN IF Raises(data, at)
          THEN Uncaught(c1)
          ELSE [c1 EXCEPT !.loc.images =
                            IF is_string(v) THEN Images(f, data)
                            ELSE @ \o Images(f, data),
                          !.loc.has_images = TRUE]
     ELSE error(c, "__ollama__: '" \o what \o
            "' name must be a character vector or a cell array of character vectors.")

\* the imageFile and imageBase64 branches: f is the loader, what the name
\* of the parameter.  The images are loaded before has_images is checked.
ImageParam(c, v, at, f, what) ==
  LET data == IF is_string(v) THEN << v.s >> ELSE v.c
      c1 == Loaded(c, f, data, at)
  IN IF is_string(v) \/ iscellstr(v)
     THEN IF Raises(data, at)
          THEN Uncaught(c1)
          ELSE LET c2 == [c1 EXCEPT !.loc.images =
                            IF is_string(v) THEN Images(f, data)
                            ELSE @ \o Images(f, data)]
               IN IF c2.loc.has_images
                  THEN error(c2, EitherImage)
                  ELSE [c2 EXCEPT !.loc.has_images = TRUE]
     ELSE error(c, "__ollama__: '" \o what \o
            "' name must be a character vector or a cell array of character vectors.")

Param_imageFile(c, v, at) ==
  ImageParam(c, v, at, "image::from_file", "imageFile")

Param_imageBase64(c, v, at) ==
  ImageParam(c, v, at, "image::from_base64_string", "imageBase64")

\* the fields of an options structure that are copied into the request
OptionFields ==
  {"num_keep", "seed", "num_predict", "top_k", "top_p", "min_p", "typical_p",
   "repeat_last_n", "temperature", "repeat_penalty", "presence_penalty",
   "frequency_penalty", "penalize_newline", "numa", "num_ctx", "num_batch",
   "num_gpu", "main_gpu", "use_mmap", "num_thread"}

Param_options(c, v) ==
  IF ~ isstruct(v)
  THEN error(c, "__ollama__: 'options' value must be a scalar structure.")
  ELSE [c EXCEPT !.loc.options =
          @ \cup ({v.c[i] : i \in 1..Len(v.c)} \cap OptionFields)]

(***************************************************************************)
(* The message branch.  Each row of the history gives a user message, with *)
(* the images of the row that name a loader, and the previous response,    *)
(* when it is not empty.                                                   *)
(***************************************************************************)
\* the images of a row that are loaded: those of kind imageFile or
\* imageBase64, in order
RECURSIVE RowLoads(_)
RowLoads(items) ==
  IF items = <<>> THEN <<>>
  ELSE LET it == Head(items)
           f == IF it[1] = "imageFile" THEN "image::from_file"
                ELSE "image::from_base64_string"
       IN (IF it[1] \in {"imageFile", "imageBase64"}
           THEN << [loader |-> f, data |-> it[2]] >> ELSE <<>>)
          \o RowLoads(Tail(items))

\* string_value () of the host on a value the code has not checked: the
\* text of a character vector, the characters a number converts to, and
\* the host's own error on any other value
HostConverted == "char (number)"
HostError == "wrong type argument"

string_value(v) ==
  IF is_string(v) THEN v.s
  ELSE IF v.t = "double" THEN HostConverted ELSE HostError

host_error(c) == [c EXCEPT !.pc = "error", !.msg = HostError]

\* the rows from row i on; done is the number of loader calls of the branch
\* so far
RECURSIVE MessageRows(_, _, _, _, _)
MessageRows(c, rows, i, at, done) ==
  IF i > Len(rows) THEN c
  ELSE LET row == rows[i]
           user == string_value(row.user)
       IN IF user = HostError THEN host_error(c)
          ELSE IF ~ (row.img.t = "cell") \/ row.img.cols # 2
          THEN error(c,
            "__ollama__: second column in 'messages' name must be a 2-column cell array.")
          ELSE
            LET loads == RowLoads(row.img.items)
                raise == at \in (done + 1)..(done + Len(loads))
                k == IF raise THEN at - done ELSE Len(loads)
                c1 == [c EXCEPT !.calls = @ \o
                         [j \in 1..k |-> [f |-> loads[j].loader, p |-> c.p]]]
                assistant == IF is_string(row.resp) THEN row.resp.s
                             ELSE row.resp.c[2]
                c2 == [c1 EXCEPT !.loc.messages = @ \o
                         << [role |-> "user", content |-> user,
                             images |-> loads] >> \o
                         (IF assistant # ""
                          THEN << [role |-> "assistant",
                                   content |-> assistant, images |-> <<>>] >>
                          ELSE <<>>)]
            IN IF raise THEN Uncaught(c1)
               ELSE IF ~ is_string(row.resp) /\ ~ iscell(row.resp)
               THEN host_error(
                      [c1 EXCEPT !.loc.messages = @ \o
                         << [role |-> "user", content |-> user,
                             images |-> loads] >>])
               ELSE MessageRows(c2, rows, i + 1, at, done + Len(loads))

Param_message(c, v, at) ==
  IF c.loc.has_prompt
  THEN error(c, EitherPrompt)
  ELSE LET c1 == [c EXCEPT !.loc.has_messages = TRUE]
       IN IF ~ iscell(v)
          THEN error(c1, "__ollama__: 'messages' name must be a cell array.")
          ELSE IF v.cols # 3
          THEN error(c1, "__ollama__: 'messages' cell array must have 3 columns.")
          ELSE MessageRows(c1, v.rows, 1, at, 0)

Param_systemMessage(c, v) ==
  IF ~ is_string(v)
  THEN error(c, "__ollama__: 'systemMessage' must be a character vector.")
  ELSE [c EXCEPT !.loc.sysmsg = IF v.s = "default" THEN "" ELSE v.s]

Param_think(c, v) ==
  IF ~ is_string(v)
  THEN error(c, "__ollama__: 'think' value must be a character vector.")
  ELSE [c EXCEPT !.loc.think = v.s]

(***************************************************************************)
(* One iteration of the pair loop on the pair nm, v: the empty check, the  *)
(* check of the name, the branch of the name, and p += 2.  The loop ends   *)
(* when p reaches n = args.length ().                                      *)
(***************************************************************************)
Branch(c, name, v, up, at) ==
  CASE name = "model" -> Param_model(c, v)
    [] name = "prompt" -> Param_prompt(c, v)
    [] name = "serverURL" -> Param_serverURL(c, v, up)
    [] name = "readTimeout" -> Param_readTimeout(c, v)
    [] name = "writeTimeout" -> Param_writeTimeout(c, v)
    [] name = "Query" -> Param_Query(c, v)
    [] name = "loadModel" -> Param_loadModel(c, v)
    [] name = "pullModel" -> Param_pullModel(c, v)
    [] name = "copyModel" -> Param_copyModel(c, v)
    [] name = "deleteModel" -> Param_deleteModel(c, v)
    [] name = "unloadModel" -> Param_unloadModel(c, v)
    [] name = "modelInfo" -> Param_modelInfo(c, v)
    [] name = "listModels" -> Param_listModels(c, v)
    [] name = "listRunningModels" -> Param_listRunningModels(c, v)
    [] name = "imageFile" -> Param_imageFile(c, v, at)
    [] name = "imageBase64" -> Param_imageBase64(c, v, at)
    [] name = "options" -> Param_options(c, v)
    [] name = "message" -> Param_message(c, v, at)
    [] name = "systemMessage" -> Param_systemMessage(c, v)
    [] name = "think" -> Param_think(c, v)
    [] OTHER -> c

CannotBeEmpty == "__ollama__: input arguments cannot be empty."

\* the loop body without the empty check
ParsePair_NoEmptyCheck(c, nm, v, up, at, n) ==
  IF ~ is_string(nm)
  THEN error(c, "__ollama__: parameter name must be a character vector.")
  ELSE LET c1 == Branch(c, nm.s, v, up, at)
       IN IF c1.pc # "parse" THEN c1
          ELSE [c1 EXCEPT !.p = c.p + 2,
                          !.pc = IF c.p + 2 < n THEN "parse" ELSE "dispatch"]

ParsePair(c, nm, v, up, at, n) ==
  IF isempty(nm) \/ isempty(v)
  THEN error(c, CannotBeEmpty)
  ELSE IF ~ is_string(nm)
  THEN error(c, "__ollama__: parameter name must be a character vector.")
  ELSE LET c1 == Branch(c, nm.s, v, up, at)
       IN IF c1.pc # "parse" THEN c1
          ELSE [c1 EXCEPT !.p = c.p + 2,
                          !.pc = IF c.p + 2 < n THEN "parse" ELSE "dispatch"]

(***************************************************************************)
(* The dispatch chain.  a is the answer of the library.                    *)
(***************************************************************************)
Do_not_running(c) ==
  Return([c EXCEPT !.txt = Bool(FALSE), !.err = Bool(TRUE)])

Do_query_status(c) ==
  Return([c EXCEPT !.txt = Bool(TRUE), !.err = Bool(FALSE)])

\* get_version is called outside any try block
Do_query_version(c, a) ==
  LET c1 == Called(c, "get_version")
  IN IF a.kind = "raise" THEN Uncaught(c1)
     ELSE Return([c1 EXCEPT !.txt = Str("version"), !.err = Bool(FALSE)])

\* load_model and unload_model are called outside any try block
Do_loadModel(c, a) ==
  LET c1 == Called(c, "load_model")
      model_loaded == a.kind = "ok"
  IN IF a.kind = "raise" THEN Uncaught(c1)
     ELSE Return([c1 EXCEPT !.txt = Bool(model_loaded),
                            !.err = Bool(~ model_loaded)])

\* pull_model, copy_model and delete_model (f) are called in a try block
Guarded(c, a, f) ==
  LET c1 == Called(c, f)
  IN IF a.kind = "raise" THEN Return(Caught(c1))
     ELSE Return([c1 EXCEPT !.txt = Bool(a.kind = "ok"), !.err = Bool(FALSE)])

Do_pullModel(c, a) == Guarded(c, a, "pull_model")

Do_copyModel(c, a) == Guarded(c, a, "copy_model")

Do_deleteModel(c, a) == Guarded(c, a, "delete_model")

Do_unloadModel(c, a) ==
  LET c1 == Called(c, "unload_model")
      model_unloaded == a.kind = "ok"
  IN IF a.kind = "raise" THEN Uncaught(c1)
     ELSE Return([c1 EXCEPT !.txt = Bool(model_unloaded),
                            !.err = Bool(~ model_unloaded)])

\* list_models is called before the try block; show_model_info is called in
\* it, once for every model of the list equal to modelInfoName
RECURSIVE ShowEach(_, _, _, _)
ShowEach(c, a, models, m) ==
  IF m > Len(models) THEN c
  ELSE IF models[m] = c.loc.modelInfoName
  THEN LET c1 == Called(c, "show_model_info")
       IN IF a.info = "raise" THEN Caught(c1)
          ELSE ShowEach([c1 EXCEPT !.txt = Str("info"), !.err = Bool(FALSE)],
                        a, models, m + 1)
  ELSE ShowEach(c, a, models, m + 1)

Do_modelInfo(c, a) ==
  LET c1 == Called(c, "list_models")
  IN IF a.kind = "raise" THEN Uncaught(c1)
     ELSE Return(ShowEach(c1, a, a.models, 1))

\* listModels and listRunningModels: names is the library function that
\* returns the names, json the one that returns the json
ListOp(c, a, names, json) ==
  LET c1 == Called(c, IF c.loc.return_cellstr THEN names ELSE json)
  IN IF a.kind = "raise" THEN Return(Caught(c1))
     ELSE IF c.loc.return_cellstr
     THEN Return([c1 EXCEPT !.txt = CellOut(a.models), !.err = Bool(FALSE)])
     ELSE Return([c1 EXCEPT !.txt = Str("json"), !.err = Bool(FALSE)])

Do_listModels(c, a) == ListOp(c, a, "list_models", "list_model_json")

Do_listRunningModels(c, a) ==
  ListOp(c, a, "list_running_models", "running_model_json")

\* inference: generate with a prompt, chat with a message history
Do_inference(c, a) ==
  IF c.loc.model = ""
  THEN error(c, "__ollama: 'model' parameter is required.")
  ELSE IF ~ c.loc.has_prompt /\ ~ c.loc.has_messages
  THEN error(c, "__ollama: either 'prompt' or 'messages' parameter is required.")
  ELSE LET c1 == Called(c, IF c.loc.has_prompt THEN "generate" ELSE "chat")
       IN IF a.kind = "raise" THEN Return(Caught(c1))
          ELSE Return([c1 EXCEPT !.txt = Str("response"), !.err = Bool(FALSE)])

\* the chain with modelInfo tested before the model management flags
Chain_InfoFirst(l) ==
  IF ~ l.running THEN "not_running"
  ELSE IF l.query_status THEN "query_status"
  ELSE IF l.query_version THEN "query_version"
  ELSE IF l.do_modelInfo THEN "modelInfo"
  ELSE IF l.do_loadModel THEN "loadModel"
  ELSE IF l.do_pullModel THEN "pullModel"
  ELSE IF l.do_copyModel THEN "copyModel"
  ELSE IF l.do_deleteModel THEN "deleteModel"
  ELSE IF l.do_unloadModel THEN "unloadModel"
  ELSE IF l.do_listModels THEN "listModels"
  ELSE IF l.do_listRunningModels THEN "listRunningModels"
  ELSE "inference"

\* the branch of the chain that is taken: the first whose condition holds
Chain(l) ==
  IF ~ l.running THEN "not_running"
  ELSE IF l.query_status THEN "query_status"
  ELSE IF l.query_version THEN "query_version"
  ELSE IF l.do_loadModel THEN "loadModel"
  ELSE IF l.do_pullModel THEN "pullModel"
  ELSE IF l.do_copyModel THEN "copyModel"
  ELSE IF l.do_deleteModel THEN "deleteModel"
  ELSE IF l.do_unloadModel THEN "unloadModel"
  ELSE IF l.do_modelInfo THEN "modelInfo"
  ELSE IF l.do_listModels THEN "listModels"
  ELSE IF l.do_listRunningModels THEN "listRunningModels"
  ELSE "inference"

Taken(c, b) == [c EXCEPT !.branch = b]

Dispatch(c0, a) ==
  LET b == Chain(c0.loc)
      c == Taken(c0, b)
  IN CASE b = "not_running" -> Do_not_running(c)
       [] b = "query_status" -> Do_query_status(c)
       [] b = "query_version" -> Do_query_version(c, a)
       [] b = "loadModel" -> Do_loadModel(c, a)
       [] b = "pullModel" -> Do_pullModel(c, a)
       [] b = "copyModel" -> Do_copyModel(c, a)
       [] b = "deleteModel" -> Do_deleteModel(c, a)
       [] b = "unloadModel" -> Do_unloadModel(c, a)
       [] b = "modelInfo" -> Do_modelInfo(c, a)
       [] b = "listModels" -> Do_listModels(c, a)
       [] b = "listRunningModels" -> Do_listRunningModels(c, a)
       [] OTHER -> Do_inference(c, a)

(***************************************************************************)
(* The state machine.                                                      *)
(***************************************************************************)
\* the call before it starts, with a library that no setter has touched
Fresh ==
  [pc |-> "idle", p |-> 0, loc |-> InitLoc, txt |-> Undefined,
   err |-> Undefined, msg |-> "", calls |-> <<>>, lib |-> DefaultLib,
   branch |-> "", raised |-> FALSE]

\* the call as the variables hold it
Cur ==
  [pc |-> pc, p |-> p, loc |-> loc, txt |-> txt, err |-> err, msg |-> msg,
   calls |-> calls, lib |-> lib, branch |-> branch, raised |-> raised]

\* the variables take the call c
Becomes(c) ==
  /\ pc' = c.pc
  /\ p' = c.p
  /\ loc' = c.loc
  /\ txt' = c.txt
  /\ err' = c.err
  /\ msg' = c.msg
  /\ calls' = c.calls
  /\ lib' = c.lib
  /\ branch' = c.branch
  /\ raised' = c.raised

(***************************************************************************)
(* fig2base64 (hfig): the PNG of a figure as a base64 string.              *)
(***************************************************************************)
\* the objects of the graphics manager: a figure, an axes, and a number
\* that is the handle of no object
ObjectAt(h) ==
  CASE h = 1 -> "figure"
    [] h = 2 -> "axes"
    [] OTHER -> "none"

\* the arguments tried: a number (the handle h) and a cell array
NoArg == [t |-> "none", h |-> 0]
FigArgs == {[t |-> "double", h |-> h] : h \in 1..3} \cup {[t |-> "cell", h |-> 0]}

\* what the call returns: nothing yet, or a character string that is the
\* encodings enc (innermost last) of rows by cols pixels of three bytes
NoString == [t |-> "undefined", enc |-> <<>>, rows |-> 0, cols |-> 0]
Pixels(rows, cols) == [t |-> "uint8", enc |-> <<>>, rows |-> rows, cols |-> cols]
Png(data) == [data EXCEPT !.t = "png", !.enc = << "png" >> \o @]
Base64(data) == [data EXCEPT !.t = "char", !.enc = << "base64" >> \o @]

FigIdle ==
  [pc |-> "idle", nargs |-> 0, arg |-> NoArg, steps |-> <<>>,
   ret |-> NoString, msg |-> ""]

InvalidNumber == "fig2base64: invalig number of input arguments."
NotAHandle == "fig2base64: HFIG is not a handle."
NotAFigure == "fig2base64: HFIG is not a figure."
NoPng == "fig2base64: unable to convert image to PNG."

\* f after the function step is called
Did(f, step) == [f EXCEPT !.steps = Append(@, step)]

\* the capture, the encodings and the return, for the call f on a figure;
\* ok is the result of fpng_encode_image_to_memory
Capture(f, rows, cols, ok) ==
  LET f1 == Did(Did(f, "process_events"), "get_pixels")
      data == Pixels(rows, cols)
      f2 == Did(Did(f1, "fpng_init"), "fpng_encode_image_to_memory")
      png_data == Png(data)
  IN IF ~ ok
     THEN [f2 EXCEPT !.pc = "error", !.msg = NoPng]
     ELSE [Did(f2, "Base64::Encode") EXCEPT !.pc = "return",
                                            !.ret = Base64(png_data)]

\* fig2base64 without the test that the object is a figure
fig2base64_AnyObject(n, v, rows, cols, ok) ==
  LET f == [FigIdle EXCEPT !.nargs = n, !.arg = v]
  IN IF n # 1
     THEN [f EXCEPT !.pc = "error", !.msg = InvalidNumber]
     ELSE IF v.t # "double"
     THEN [f EXCEPT !.pc = "error", !.msg = NotAHandle]
     ELSE IF ObjectAt(v.h) = "none"
     THEN [f EXCEPT !.pc = "error", !.msg = NotAFigure]
     ELSE Capture(f, rows, cols, ok)

fig2base64(n, v, rows, cols, ok) ==
  LET f == [FigIdle EXCEPT !.nargs = n, !.arg = v]
  IN IF n # 1
     THEN [f EXCEPT !.pc = "error", !.msg = InvalidNumber]
     ELSE IF v.t # "double"
     THEN [f EXCEPT !.pc = "error", !.msg = NotAHandle]
     ELSE IF ObjectAt(v.h) = "none" \/ ObjectAt(v.h) # "figure"
     THEN [f EXCEPT !.pc = "error", !.msg = NotAFigure]
     ELSE Capture(f, rows, cols, ok)

Init ==
  /\ pc = "idle"
  /\ nargout = 0
  /\ nargs = 0
  /\ args = <<>>
  /\ p = 0
  /\ loc = Fresh.loc
  /\ txt = Fresh.txt
  /\ err = Fresh.err
  /\ msg = Fresh.msg
  /\ calls = Fresh.calls
  /\ lib = Fresh.lib
  /\ serverUp \in SUBSET URLs
  /\ branch = Fresh.branch
  /\ raised = Fresh.raised
  /\ fig = FigIdle

\* __ollama__ is called with n arguments and nout outputs
Call ==
  /\ pc = "idle" /\ fig.pc = "idle"
  /\ \E nout \in 1..2, n \in 0..(2 * MaxPairs + 1) :
       /\ nargout' = nout
       /\ nargs' = n
       /\ Becomes(Entry(Cur, serverUp, nout, n))
  /\ UNCHANGED << args, serverUp, fig >>

\* one iteration of the pair loop, on a pair of name nm
Pair(nm) ==
  /\ \E v \in ValuesFor(nm.s),
        at \in IF nm.s \in {"imageFile", "imageBase64", "message"}
               THEN 0..2 ELSE {0} :
       /\ args' = Append(args, << nm, v >>)
       /\ Becomes(ParsePair(Cur, nm, v, serverUp, at, nargs))
  /\ UNCHANGED << nargout, nargs, serverUp, fig >>

Pair_model == pc = "parse" /\ Pair(Chr("model"))

Pair_prompt == pc = "parse" /\ Pair(Chr("prompt"))

Pair_serverURL == pc = "parse" /\ Pair(Chr("serverURL"))

Pair_readTimeout == pc = "parse" /\ Pair(Chr("readTimeout"))

Pair_writeTimeout == pc = "parse" /\ Pair(Chr("writeTimeout"))

Pair_Query == pc = "parse" /\ Pair(Chr("Query"))

Pair_loadModel == pc = "parse" /\ Pair(Chr("loadModel"))

Pair_pullModel == pc = "parse" /\ Pair(Chr("pullModel"))

Pair_copyModel == pc = "parse" /\ Pair(Chr("copyModel"))

Pair_deleteModel == pc = "parse" /\ Pair(Chr("deleteModel"))

Pair_unloadModel == pc = "parse" /\ Pair(Chr("unloadModel"))

Pair_modelInfo == pc = "parse" /\ Pair(Chr("modelInfo"))

Pair_listModels == pc = "parse" /\ Pair(Chr("listModels"))

Pair_listRunningModels == pc = "parse" /\ Pair(Chr("listRunningModels"))

Pair_imageFile == pc = "parse" /\ Pair(Chr("imageFile"))

Pair_imageBase64 == pc = "parse" /\ Pair(Chr("imageBase64"))

Pair_options == pc = "parse" /\ Pair(Chr("options"))

Pair_message == pc = "parse" /\ Pair(Chr("message"))

Pair_systemMessage == pc = "parse" /\ Pair(Chr("systemMessage"))

Pair_think == pc = "parse" /\ Pair(Chr("think"))

\* a name without a branch: the pair is skipped
Pair_other == pc = "parse" /\ Pair(Chr(OtherName))

\* a name that is empty or not a character vector
Pair_noname == pc = "parse" /\ (Pair(EmptyChr) \/ Pair(Num))

\* the branch of the dispatch chain that is taken
Step ==
  /\ \E a \in AnswersFor(Chain(loc)) : Becomes(Dispatch(Cur, a))
  /\ UNCHANGED << nargout, nargs, args, serverUp, fig >>

Step_not_running == pc = "dispatch" /\ Chain(loc) = "not_running" /\ Step

Step_query_status == pc = "dispatch" /\ Chain(loc) = "query_status" /\ Step

Step_query_version == pc = "dispatch" /\ Chain(loc) = "query_version" /\ Step

Step_loadModel == pc = "dispatch" /\ Chain(loc) = "loadModel" /\ Step

Step_pullModel == pc = "dispatch" /\ Chain(loc) = "pullModel" /\ Step

Step_copyModel == pc = "dispatch" /\ Chain(loc) = "copyModel" /\ Step

Step_deleteModel == pc = "dispatch" /\ Chain(loc) = "deleteModel" /\ Step

Step_unloadModel == pc = "dispatch" /\ Chain(loc) = "unloadModel" /\ Step

Step_modelInfo == pc = "dispatch" /\ Chain(loc) = "modelInfo" /\ Step

Step_listModels == pc = "dispatch" /\ Chain(loc) = "listModels" /\ Step

Step_listRunningModels == pc = "dispatch" /\ Chain(loc) = "listRunningModels" /\ Step

Step_inference == pc = "dispatch" /\ Chain(loc) = "inference" /\ Step

\* fig2base64 is called with n arguments, the first of them v, on a figure
\* whose pixels have the given numbers of rows and columns
Call_fig2base64 ==
  /\ pc = "idle" /\ fig.pc = "idle"
  /\ \E n \in 0..2 :
       \E v \in IF n = 0 THEN {NoArg} ELSE FigArgs :
         \E rows \in 0..MaxDim, cols \in 0..MaxDim, ok \in BOOLEAN :
           fig' = fig2base64(n, v, rows, cols, ok)
  /\ UNCHANGED << pc, nargout, nargs, args, p, loc, txt, err, msg, calls, lib,
                  serverUp, branch, raised >>

Next ==
  \/ Call
  \/ Call_fig2base64
  \/ Pair_model \/ Pair_prompt \/ Pair_serverURL \/ Pair_readTimeout
  \/ Pair_writeTimeout \/ Pair_Query \/ Pair_loadModel \/ Pair_pullModel
  \/ Pair_copyModel \/ Pair_deleteModel \/ Pair_unloadModel \/ Pair_modelInfo
  \/ Pair_listModels \/ Pair_listRunningModels \/ Pair_imageFile
  \/ Pair_imageBase64 \/ Pair_options \/ Pair_message \/ Pair_systemMessage
  \/ Pair_think \/ Pair_other \/ Pair_noname
  \/ Step_not_running \/ Step_query_status \/ Step_query_version
  \/ Step_loadModel \/ Step_pullModel \/ Step_copyModel \/ Step_deleteModel
  \/ Step_unloadModel \/ Step_modelInfo \/ Step_listModels
  \/ Step_listRunningModels \/ Step_inference

Spec == Init /\ [][Next]_vars

\* the call has ended
Ended == pc \in {"return", "error", "exception"}

TypeOK ==
  /\ pc \in {"idle", "parse", "dispatch", "return", "error", "exception"}
  /\ p \in 0..(2 * MaxPairs)
  /\ Len(args) <= MaxPairs

(***************************************************************************)
(* Vocabulary of the properties.                                           *)
(***************************************************************************)
\* the number of pairs of the call that the loop has not read
Unread == (nargs \div 2) - Len(args)

\* the argument lists the call may have been made with, when the pairs
\* that were not read are out of S: the pairs read, then pairs out of S
ArgsWith(S) == { args \o rest : rest \in [1..Unread -> S] }

\* no library function of the set F was called
NoCallOf(F) == \A i \in 1..Len(calls) : calls[i].f \notin F

\* the configuration setters and the operations of the library
Setters == {"setServerURL", "setReadTimeout", "setWriteTimeout"}

Operations ==
  {"get_version", "load_model", "pull_model", "copy_model", "delete_model",
   "unload_model", "list_models", "show_model_info", "list_model_json",
   "list_running_models", "running_model_json", "generate", "chat"}

\* the pair pr has the name nm and a value that is not empty
Names(nm, pr) == pr[1] = Chr(nm) /\ ~ isempty(pr[2])

(***************************************************************************)
(* C1: two different parameters out of loadModel, pullModel, copyModel,    *)
(* deleteModel and unloadModel in one call.                                *)
(***************************************************************************)
ModelOps ==
  {"loadModel", "pullModel", "copyModel", "deleteModel", "unloadModel"}

ModelOpCalls ==
  {"load_model", "pull_model", "copy_model", "delete_model", "unload_model"}

\* a pair that names one of the five with a value of its type
ModelOpPair(pr) ==
  /\ \E nm \in ModelOps : Names(nm, pr)
  /\ IF pr[1].s = "copyModel" THEN iscellstr(pr[2]) /\ pr[2].n = 2
     ELSE is_string(pr[2])

ModelOpPairs ==
  { << Chr(nm), IF nm = "copyModel" THEN Cell2 ELSE CharA >> : nm \in ModelOps }

TwoModelOps(full) ==
  \E i, j \in 1..Len(full) :
    ModelOpPair(full[i]) /\ ModelOpPair(full[j]) /\ full[i][1] # full[j][1]

\* C1 as stated, on the calls that request two outputs and have an even
\* number of arguments: every call whose argument list contains two
\* different parameters out of the five, with well-typed values, ends with
\* the error 'either load, pull, copy, delete, or unload a model' and invokes
\* none of load_model, pull_model, copy_model, delete_model, unload_model.
C1_AsStated ==
  (Ended /\ nargout = 2 /\ nargs % 2 = 0) =>
    \A full \in ArgsWith(ModelOpPairs) :
      TwoModelOps(full) =>
        pc = "error" /\ msg = EitherModelOp /\ NoCallOf(ModelOpCalls)

\* C1 amended: when the pair loop reaches the second of two different
\* parameters out of the five (well-typed values), the call ends at that
\* pair with the error 'either load, pull, copy, delete, or unload a model';
\* and no call whose argument list contains two of them invokes any of the
\* five library functions, however it ends.
C1_TwoModelOpsRejected ==
  /\ TwoModelOps(args) => pc = "error" /\ msg = EitherModelOp
  /\ \A full \in ArgsWith(ModelOpPairs) :
       TwoModelOps(full) => NoCallOf(ModelOpCalls)

C1_Witness == TwoModelOps(args) /\ pc = "error" /\ msg = EitherModelOp

(***************************************************************************)
(* C2: 'Query' and the other parameters of the call.                       *)
(***************************************************************************)
\* the call made with the pair pr alone and two outputs, on the servers up,
\* the library answering a
Alone(pr, up, a) ==
  LET c1 == Entry(Fresh, up, 2, 2)
      c2 == ParsePair(c1, pr[1], pr[2], up, 0, 2)
  IN IF c2.pc = "dispatch" THEN Dispatch(c2, a) ELSE c2

\* what the caller and the library see of the call c: how it ended, the
\* values returned, the configuration of the library
Outcome(c) ==
  [end |-> c.pc,
   txt |-> IF c.pc = "return" THEN c.txt ELSE Undefined,
   err |-> IF c.pc = "return" THEN c.err ELSE Undefined,
   lib |-> c.lib]

\* C2: specifying 'Query' ignores all other parameters: a call with two
\* outputs whose arguments hold one 'Query' pair and other pairs ends as
\* the call with the 'Query' pair alone does on the same servers (same txt,
\* same err, same error-or-return) and leaves the same library
\* configuration.
C2_QueryIgnoresOthers ==
  (Ended /\ nargout = 2) =>
    \A i \in 1..Len(args) :
      (/\ args[i][1] = Chr("Query")
       /\ args[i][2] \in {Chr("status"), Chr("version")}
       /\ \A j \in 1..Len(args) : j # i => args[j][1] # Chr("Query")) =>
        \E a \in LibAnswers :
          Outcome(Cur) = Outcome(Alone(args[i], serverUp, a))

(***************************************************************************)
(* C3: the priority of the operations of one call.                         *)
(***************************************************************************)
Order ==
  << "query_status", "query_version", "loadModel", "pullModel", "copyModel",
     "deleteModel", "unloadModel", "modelInfo", "listModels",
     "listRunningModels", "inference" >>

\* the operation that the pair pr asks for
Requests(pr) ==
  IF pr[1] = Chr("Query") /\ pr[2] = Chr("status") THEN "query_status"
  ELSE IF pr[1] = Chr("Query") /\ pr[2] = Chr("version") THEN "query_version"
  ELSE IF pr[1].s \in ModelOps \cup {"modelInfo", "listModels", "listRunningModels"}
  THEN pr[1].s
  ELSE IF pr[1].s \in {"prompt", "message"} THEN "inference"
  ELSE "none"

Requested(full) == {Requests(full[i]) : i \in 1..Len(full)} \ {"none"}

\* the first operation of S in the priority order
First(S) ==
  Order[CHOOSE i \in 1..Len(Order) :
          Order[i] \in S /\ \A j \in 1..(i - 1) : Order[j] \notin S]

\* the library functions of a branch of the chain
FunctionsOf(b) ==
  CASE b = "query_version" -> {"get_version"}
    [] b = "loadModel" -> {"load_model"}
    [] b = "pullModel" -> {"pull_model"}
    [] b = "copyModel" -> {"copy_model"}
    [] b = "deleteModel" -> {"delete_model"}
    [] b = "unloadModel" -> {"unload_model"}
    [] b = "modelInfo" -> {"list_models", "show_model_info"}
    [] b = "listModels" -> {"list_models", "list_model_json"}
    [] b = "listRunningModels" -> {"list_running_models", "running_model_json"}
    [] b = "inference" -> {"generate", "chat"}
    [] OTHER -> {}

\* the operations of the library that were called, in order
OpCalls == SelectSeq(calls, LAMBDA x : x.f \in Operations)

Named(full, nm) == \E i \in 1..Len(full) : full[i][1] = Chr(nm)

\* C3: when the argument list is accepted and the server runs, the branch
\* taken is the first one requested in the order Query status, Query
\* version, loadModel, pullModel, copyModel, deleteModel, unloadModel,
\* modelInfo, listModels, listRunningModels, inference, whatever the order
\* of the pairs; only library functions of that branch are called; modelInfo
\* runs only when no Query and none of the five was given, a list only when
\* modelInfo was not given either.
C3_PriorityOrder ==
  (branch # "" /\ branch # "not_running") =>
    /\ branch = First(Requested(args) \cup {"inference"})
    /\ \A i \in 1..Len(OpCalls) : OpCalls[i].f \in FunctionsOf(branch)
    /\ branch = "modelInfo" =>
         ~ Named(args, "Query") /\ \A nm \in ModelOps : ~ Named(args, nm)
    /\ branch \in {"listModels", "listRunningModels"} =>
         /\ ~ Named(args, "modelInfo") /\ ~ Named(args, "Query")
         /\ \A nm \in ModelOps : ~ Named(args, nm)
    /\ branch = "inference" =>
         Requested(args) \subseteq {"inference"}

C3_Witness ==
  /\ pc = "return" /\ branch = "query_version"
  /\ {"loadModel", "modelInfo"} \subseteq Requested(args)
  /\ Len(OpCalls) = 1

(***************************************************************************)
(* C4: one logical operation per call, after the whole list is parsed.     *)
(***************************************************************************)
\* C4: a call invokes at most one logical operation of the library: at most
\* one operation function is called, or list_models and then
\* show_model_info for a model info; and an operation is called only when
\* every pair of the list has been parsed and validated.
C4_OneOperation ==
  /\ \/ Len(OpCalls) <= 1
     \/ /\ Len(OpCalls) = 2
        /\ OpCalls[1].f = "list_models" /\ OpCalls[2].f = "show_model_info"
        /\ branch = "modelInfo"
  /\ \A i \in 1..Len(OpCalls) :
       /\ OpCalls[i].p = nargs
       /\ 2 * Len(args) = nargs
       /\ branch # ""

C4_Witness ==
  /\ pc = "return" /\ Len(OpCalls) = 2 /\ Len(args) = MaxPairs
  /\ Cardinality(Requested(args)) >= 2

(***************************************************************************)
(* C5: the exceptions of the library.                                      *)
(***************************************************************************)
\* C5: when a library function raises ollama::exception, in the dispatch
\* chain or in an image loader of the pair loop, the call returns normally
\* with txt the message of the exception and err = true: the exception
\* never leaves __ollama__.
C5_ExceptionsCaught ==
  raised => pc = "return" /\ txt = Str(ExcMsg) /\ err = Bool(TRUE)

(***************************************************************************)
(* C6: 'prompt' and 'message' in one call.                                 *)
(***************************************************************************)
\* a 'prompt' pair with a character vector and a 'message' pair with a cell
PromptAndMessage(full) ==
  \E i, j \in 1..Len(full) :
    /\ Names("prompt", full[i]) /\ is_string(full[i][2])
    /\ Names("message", full[j]) /\ iscell(full[j][2])

PromptPairs == { << Chr("prompt"), CharA >>, << Chr("message"), Msg1 >> }

\* C6 as stated, on the calls that request two outputs and have an even
\* number of arguments: every call that specifies both 'prompt' and
\* 'message' ends with the error 'specify either 'prompt' or 'message'',
\* whichever comes first, and invokes neither generate nor chat, also when
\* it requests a Query or a model-management operation.
C6_AsStated ==
  (Ended /\ nargout = 2 /\ nargs % 2 = 0) =>
    \A full \in ArgsWith(PromptPairs) :
      PromptAndMessage(full) =>
        pc = "error" /\ msg = EitherPrompt /\ NoCallOf({"generate", "chat"})

\* C6 amended: when the pair loop reaches the second of a 'prompt' pair and
\* a 'message' pair, whichever comes first, the call ends at that pair with
\* the error 'specify either 'prompt' or 'message'', whatever else the call
\* requests; and no call whose argument list names both invokes generate or
\* chat, however it ends.
C6_PromptAndMessageRejected ==
  /\ (\E i, j \in 1..Len(args) :
        Names("prompt", args[i]) /\ Names("message", args[j])) =>
       pc = "error" /\ msg = EitherPrompt
  /\ \A full \in ArgsWith(PromptPairs) :
       PromptAndMessage(full) => NoCallOf({"generate", "chat"})

C6_Witness ==
  /\ pc = "error" /\ msg = EitherPrompt
  /\ Names("message", args[1]) /\ Names("loadModel", args[2])
  /\ Names("prompt", args[3])

(***************************************************************************)
(* C7: 'imageFile' and 'imageBase64' in one call.                          *)
(***************************************************************************)
\* a pair that names imageFile or imageBase64 with a character vector or a
\* cell array of character vectors
ImagePair(pr) ==
  /\ Names("imageFile", pr) \/ Names("imageBase64", pr)
  /\ is_string(pr[2]) \/ iscellstr(pr[2])

ImagePairs == { << Chr("imageFile"), CharA >>, << Chr("imageBase64"), CharA >> }

\* the last pair read is the only image pair read, and the dispatch chain
\* has not run
OneImagePairRead ==
  /\ branch = "" /\ Len(args) >= 1
  /\ ImagePair(args[Len(args)])
  /\ \A i \in 1..(Len(args) - 1) : ~ ImagePair(args[i])

\* C7 as stated, on the calls that request two outputs and have an even
\* number of arguments: a call that specifies both 'imageFile' and
\* 'imageBase64' ends with the error 'specify either 'imageFile' or
\* 'imageBase64''; and the pair of a call that specifies only one of the
\* two, with a character vector or a cell array of them, is accepted.
C7_AsStated ==
  /\ (Ended /\ nargout = 2 /\ nargs % 2 = 0) =>
       \A full \in ArgsWith(ImagePairs) :
         (\E i, j \in 1..Len(full) :
            /\ ImagePair(full[i]) /\ ImagePair(full[j])
            /\ full[i][1] = Chr("imageFile")
            /\ full[j][1] = Chr("imageBase64")) =>
           pc = "error" /\ msg = EitherImage
  /\ (/\ branch = "" /\ Len(args) >= 1 /\ ImagePair(args[Len(args)])
      /\ \A i \in 1..Len(args) :
           args[i][1] \in {Chr("imageFile"), Chr("imageBase64")} =>
             args[i][1] = args[Len(args)][1]) =>
       pc \in {"parse", "dispatch"}

\* C7 amended: when the pair loop reaches a second pair out of 'imageFile'
\* and 'imageBase64' (a character vector or a cell array of them each; the
\* other name or the same name again), the call ends at that pair with the
\* error 'specify either 'imageFile' or 'imageBase64''; the first such pair
\* of a call is accepted; in both cases the images of the pair are loaded
\* first, and an ollama::exception of the loader leaves __ollama__ instead.
C7_SecondImagePairRejected ==
  /\ (\E i, j \in 1..Len(args) :
        i < j /\ ImagePair(args[i]) /\ ImagePair(args[j])) =>
       IF raised THEN pc = "exception" ELSE pc = "error" /\ msg = EitherImage
  /\ OneImagePairRead =>
       IF raised THEN pc = "exception" ELSE pc \in {"parse", "dispatch"}

C7_Witness ==
  /\ pc = "error" /\ msg = EitherImage
  /\ Named(args, "imageFile") /\ Named(args, "imageBase64")

C7_WitnessAccepted ==
  OneImagePairRead /\ ~ raised /\ pc = "dispatch" /\ iscellstr(args[Len(args)][2])

(***************************************************************************)
(* C8: 'listModels' and 'listRunningModels' in one call.                   *)
(***************************************************************************)
ListCalls ==
  {"list_models", "list_model_json", "list_running_models",
   "running_model_json"}

\* a pair that names nm with the value 'cellstr' or 'json'
ListPair(nm, pr) == pr[1] = Chr(nm) /\ pr[2] \in {Chr("cellstr"), Chr("json")}

BothLists(full) ==
  \E i, j \in 1..Len(full) :
    ListPair("listModels", full[i]) /\ ListPair("listRunningModels", full[j])

ListPairs ==
  { << Chr("listModels"), Chr("json") >>,
    << Chr("listRunningModels"), Chr("cellstr") >> }

\* C8 as stated, on the calls that request two outputs and have an even
\* number of arguments: every call that specifies both 'listModels' and
\* 'listRunningModels', each with 'cellstr' or 'json', ends with the error
\* 'specify either 'listModels' or 'listRunningModels'' and invokes neither
\* list operation.
C8_AsStated ==
  (Ended /\ nargout = 2 /\ nargs % 2 = 0) =>
    \A full \in ArgsWith(ListPairs) :
      BothLists(full) =>
        pc = "error" /\ msg = EitherList /\ NoCallOf(ListCalls)

\* C8 amended: when the pair loop reaches the second of a 'listModels' pair
\* and a 'listRunningModels' pair (in either order, each with 'cellstr' or
\* 'json'), the call ends at that pair with the error 'specify either
\* 'listModels' or 'listRunningModels''; and no call whose argument list
\* holds both invokes a list function of the library, however it ends.
C8_BothListsRejected ==
  /\ BothLists(args) => pc = "error" /\ msg = EitherList
  /\ \A full \in ArgsWith(ListPairs) : BothLists(full) => NoCallOf(ListCalls)

C8_Witness == BothLists(args) /\ pc = "error" /\ msg = EitherList

(***************************************************************************)
(* C9: an odd number of input arguments.                                   *)
(***************************************************************************)
NotInPairs == "__ollama__: input arguments must be in Name-Value pairs."

\* C9 as stated: every call with an odd number of input arguments ends with
\* the error 'input arguments must be in Name-Value pairs' before any pair
\* is processed: no setter and no operation of the library is invoked.
C9_AsStated ==
  (pc # "idle" /\ nargs % 2 = 1) =>
    /\ pc = "error" /\ msg = NotInPairs
    /\ args = <<>> /\ NoCallOf(Setters \cup Operations)

\* C9 amended: every call that requests two outputs and has an odd number
\* of input arguments ends with the error 'input arguments must be in
\* Name-Value pairs' before any pair is processed: no setter and no
\* operation of the library is invoked.
C9_OddCountRejected ==
  (pc # "idle" /\ nargout = 2 /\ nargs % 2 = 1) =>
    /\ pc = "error" /\ msg = NotInPairs
    /\ args = <<>> /\ NoCallOf(Setters \cup Operations)

C9_Witness == pc = "error" /\ nargout = 2 /\ nargs % 2 = 1 /\ msg = NotInPairs

(***************************************************************************)
(* C10: empty names and values.                                            *)
(***************************************************************************)
HasEmpty(full) ==
  \E i \in 1..Len(full) : isempty(full[i][1]) \/ isempty(full[i][2])

EmptyPairs == { << Chr("model"), EmptyChr >> }

\* C10 as stated: every call with an even argument count and two outputs
\* in which a name or a value is empty, at any position of the list, ends
\* with the error 'input arguments cannot be empty' and dispatches no
\* operation.
C10_AsStated ==
  (Ended /\ nargout = 2 /\ nargs % 2 = 0) =>
    \A full \in ArgsWith(EmptyPairs) :
      HasEmpty(full) =>
        pc = "error" /\ msg = CannotBeEmpty /\ NoCallOf(Operations)

\* C10 amended: when the pair loop reaches a pair whose name or value is
\* empty, the call ends at that pair with the error 'input arguments cannot
\* be empty'; and no call whose argument list holds an empty name or value
\* invokes an operation of the library, however it ends.
C10_EmptyRejected ==
  /\ HasEmpty(args) => pc = "error" /\ msg = CannotBeEmpty
  /\ \A full \in ArgsWith(EmptyPairs) : HasEmpty(full) => NoCallOf(Operations)

C10_Witness ==
  /\ pc = "error" /\ msg = CannotBeEmpty
  /\ Len(args) = MaxPairs /\ isempty(args[MaxPairs][2])

(***************************************************************************)
(* C11: the type checks of the values.                                     *)
(***************************************************************************)
StringNames ==
  {"model", "prompt", "serverURL", "Query", "loadModel", "pullModel",
   "deleteModel", "unloadModel", "modelInfo", "listModels",
   "listRunningModels", "systemMessage", "think"}

\* a row of a message history with an element of a wrong host type
WrongRow(row) ==
  \/ ~ is_string(row.user)
  \/ row.img.t # "cell"
  \/ ~ is_string(row.resp) /\ ~ iscell(row.resp)

\* the value v is of a wrong host type for the parameter name
WrongType(name, v) ==
  CASE name \in StringNames -> ~ is_string(v)
    [] name \in {"readTimeout", "writeTimeout"} -> ~ is_double_scalar(v)
    [] name = "copyModel" -> ~ iscellstr(v)
    [] name \in {"imageFile", "imageBase64"} -> ~ is_string(v) /\ ~ iscellstr(v)
    [] name = "options" -> ~ isstruct(v)
    [] name = "message" ->
         \/ ~ iscell(v)
         \/ v.cols = 3 /\ \E i \in 1..Len(v.rows) : WrongRow(v.rows[i])
    [] OTHER -> FALSE

\* the last pair read names a recognised parameter with a value that is not
\* empty and of a wrong type
WrongTypeRead ==
  /\ branch = "" /\ Len(args) >= 1
  /\ LET pr == args[Len(args)]
     IN /\ is_string(pr[1]) /\ pr[1].s \in Recognised
        /\ ~ isempty(pr[2])
        /\ WrongType(pr[1].s, pr[2])

\* C11: every value of a recognised parameter, and every element of a row
\* of a 'message' history (user prompt, image list, previous response), is
\* type-checked before it is used: when the pair loop reads a value of a
\* wrong host type, the call ends there with an error of __ollama__ itself;
\* the value is neither converted by the host, nor used, nor rejected by an
\* error of the host.
C11_TypeChecked == WrongTypeRead => pc = "error" /\ msg # HostError

(***************************************************************************)
(* C12: the types of the values returned.                                  *)
(***************************************************************************)
\* the type of txt that the claim gives to a return from the branch b of
\* the dispatch chain ("" is the return of the 'serverURL' branch)
TxtAsStated(b) ==
  CASE b \in {"", "not_running"} -> txt = Bool(FALSE)
    [] b = "query_status" -> txt = Bool(TRUE)
    [] b \in {"loadModel", "unloadModel"} -> txt.t = "bool"
    [] b \in {"pullModel", "copyModel", "deleteModel"} ->
         IF raised THEN txt = Str(ExcMsg) ELSE txt.t = "bool"
    [] b \in {"query_version", "modelInfo", "inference"} ->
         IF raised THEN txt = Str(ExcMsg) ELSE txt.t = "char"
    [] b \in {"listModels", "listRunningModels"} ->
         IF raised THEN txt = Str(ExcMsg)
         ELSE IF loc.return_cellstr
         THEN txt.t = "cellstr" /\ txt.c \in ModelLists
         ELSE txt.t = "char"

\* C12: on every normal return of __ollama__ err is a boolean and txt is
\* assigned, a boolean for a status query, load, unload, a server that is
\* not running and a pull, copy or delete that did not raise, a character
\* string for version, modelInfo, 'json' lists, generate, chat and every
\* caught library error, and a cell array of the model names the library
\* listed for a 'cellstr' list.
C12_ReturnTypes ==
  pc = "return" =>
    /\ err.t = "bool"
    /\ txt.t # "undefined"
    /\ TxtAsStated(branch)

(***************************************************************************)
(* C13: a server that is not running.                                      *)
(***************************************************************************)
Loaders == {"image::from_file", "image::from_base64_string"}

\* the call returned and the server the library points to is not running
ReturnedNotRunning == pc = "return" /\ lib.url \notin serverUp

\* every library function called is one of the set F
OnlyCallsOf(F) == \A i \in 1..Len(calls) : calls[i].f \in F

\* C13 as stated: a call that returns while the server is not running
\* returns txt = false and err = true, and has invoked no function of the
\* library other than is_running and the configuration setters, whatever
\* operation was requested.
C13_AsStated ==
  ReturnedNotRunning =>
    /\ txt = Bool(FALSE) /\ err = Bool(TRUE)
    /\ OnlyCallsOf({"is_running"} \cup Setters)

\* C13 amended: a call that returns while the server the library points to
\* is not running returns txt = false and err = true, whatever operation
\* was requested; it has invoked is_running, the configuration setters and
\* the image loaders of the pairs read, and none of the operations of the
\* dispatch chain.
C13_NotRunningReturnsFalse ==
  ReturnedNotRunning =>
    /\ txt = Bool(FALSE) /\ err = Bool(TRUE)
    /\ OnlyCallsOf({"is_running"} \cup Setters \cup Loaders)
    /\ NoCallOf(Operations)

C13_Witness ==
  /\ ReturnedNotRunning /\ branch = "not_running"
  /\ "inference" \in Requested(args) /\ "loadModel" \in Requested(args)
  /\ ~ NoCallOf(Loaders)

(***************************************************************************)
(* C14: fig2base64 validates its argument before it captures anything.     *)
(***************************************************************************)
\* the call has one argument that is the handle of a figure
OneFigureHandle ==
  fig.nargs = 1 /\ fig.arg.t = "double" /\ ObjectAt(fig.arg.h) = "figure"

\* the capture of the pixels, the PNG encoding and the base64 encoding
CaptureOrder ==
  << "get_pixels", "fpng_encode_image_to_memory", "Base64::Encode" >>

\* those of the three that the call took, in the order it took them
Captured ==
  SelectSeq(fig.steps,
            LAMBDA x : x \in {CaptureOrder[i] : i \in 1..Len(CaptureOrder)})

\* C14: a call of fig2base64 with a number of arguments other than 1 ends
\* with an error; a call whose argument is not a number ends with 'HFIG is
\* not a handle' and one whose number is the handle of no object or of an
\* object that is not a figure with 'HFIG is not a figure', all before
\* anything is captured; only a call with one figure handle reaches the
\* capture of the pixels, the PNG encoding and the base64 encoding, in that
\* order, and a call that returns took them all and returns the base64 of
\* the PNG of the pixels.
C14_ValidatesBeforeCapture ==
  fig.pc # "idle" =>
    /\ fig.nargs # 1 =>
         fig.pc = "error" /\ fig.msg = InvalidNumber /\ fig.steps = <<>>
    /\ (fig.nargs = 1 /\ fig.arg.t # "double") =>
         fig.pc = "error" /\ fig.msg = NotAHandle /\ fig.steps = <<>>
    /\ (fig.nargs = 1 /\ fig.arg.t = "double"
          /\ ObjectAt(fig.arg.h) # "figure") =>
         fig.pc = "error" /\ fig.msg = NotAFigure /\ fig.steps = <<>>
    /\ fig.steps # <<>> =>
         /\ OneFigureHandle
         /\ Len(Captured) <= Len(CaptureOrder)
         /\ Captured = SubSeq(CaptureOrder, 1, Len(Captured))
    /\ fig.pc = "return" =>
         /\ OneFigureHandle
         /\ Captured = CaptureOrder
         /\ fig.ret.t = "char" /\ fig.ret.enc = << "base64", "png" >>

C14_Witness ==
  /\ fig.pc = "error" /\ fig.msg = NotAFigure
  /\ fig.nargs = 1 /\ ObjectAt(fig.arg.h) = "axes"

C14_WitnessReturned ==
  fig.pc = "return" /\ OneFigureHandle /\ fig.ret.rows = MaxDim

====
